---- MODULE Spec2Model ----
(***************************************************************************)
(* Marketplace backend: the authentication / session subsystem and the     *)
(* catalog services (products table, list operations).                     *)
(*                                                                         *)
(* State: the users, customers, sellers and tokens tables (customers and   *)
(* sellers as the user_ids of their rows, profile as the rows' columns;    *)
(* the created_at / updated_at columns are left out), the clock, the       *)
(* token strings handed to callers, the outcome of the last request, and   *)
(* the products table of the catalog.                                      *)
(* One action per HTTP operation (middleware + handler + usecase +         *)
(* repositories), each executed atomically against a responsive datastore. *)
(*                                                                         *)
(* Time is counted in ticks.  Two calls in the same tick read the same     *)
(* time.Now().Unix(); the token lifetimes (15 minutes, 30 days) are scaled *)
(* to AccessTTL and RefreshTTL ticks, keeping AccessTTL < RefreshTTL.      *)
(***************************************************************************)
EXTENDS Integers, FiniteSets, Sequences, TLC

\* ------------------------------------------------------------------ bounds
MaxUsers == 2
MaxTime == 3
MaxSessions == 2

\* ------------------------------------------------------- program constants
AccessTTL == 1
RefreshTTL == 2

UserTypes == {"customer", "seller"}
Usernames == {"alice", "bob"}
Emails == {"a@x.com", "b@x.com"}
Passwords == {"longenough", "otherlong1"}

Secret == "secret_key"
NoToken == [user_id |-> 0, user_type |-> "", iat |-> 0, exp |-> 0, sig |-> ""]
NoUser == 0

VARIABLES users, customers, sellers, profile, tokens, nextID, now, issued, last,
          products, inflight

vars == <<users, customers, sellers, profile, tokens, nextID, now, issued, last,
         products, inflight>>
db == <<users, customers, sellers, profile, tokens>>

\* ------------------------------------------------------------ pkg/errors
OK == [code |-> "OK", msg |-> ""]
AppError(code, msg) == [code |-> code, msg |-> msg]

\* -------------------------------------------------------- adapter/bcrypt
GenerateHashPassword(password) == <<"bcrypt", password>>
CompareHashPassword(hash, password) == hash = <<"bcrypt", password>>

\* ----------------------------------------------------------- adapter/jwt
\* jwtToken.SignedString: HS256 is deterministic, so the token string is a
\* function of the claims and the key.  Two tokens are the same string
\* exactly when these records are equal.
SignedString(claims, key) ==
  [user_id |-> claims.user_id, user_type |-> claims.user_type,
   iat |-> claims.iat, exp |-> claims.exp, sig |-> key]

\* A string that was not signed with the server's key.
ForgedToken == [user_id |-> 1, user_type |-> "customer", iat |-> 0, exp |-> MaxTime + RefreshTTL + 1, sig |-> "forged"]

\* jwt.Parse with the HMAC key function: the signature must verify and the
\* registered exp claim must lie in the future (now < exp).
ParseOK(tokenString) ==
  /\ tokenString.sig = Secret
  /\ now < tokenString.exp

GenerateAccessToken(user_id, user_type) ==
  SignedString([user_id |-> user_id, user_type |-> user_type,
                exp |-> now + AccessTTL, iat |-> now], Secret)

\* Mutant: access tokens checked against the token store like refresh tokens.
ValidateAccessTokenStoreBacked(tokenString) ==
  IF ~ParseOK(tokenString)
    THEN AppError("JWT_VALIDATION", "failed to parse access token")
  ELSE IF \A t \in tokens : t.user_id = tokenString.user_id => t.is_revoked
    THEN AppError("JWT_VALIDATION", "invalid access token")
  ELSE OK

ValidateAccessToken(tokenString) ==
  IF ~ParseOK(tokenString)
    THEN AppError("JWT_VALIDATION", "failed to parse access token")
    ELSE OK

\* The string GenerateRefreshToken signs, and the row it upserts.
RefreshTokenString(user_id, user_type) ==
  SignedString([user_id |-> user_id, user_type |-> user_type,
                exp |-> now + RefreshTTL, iat |-> now], Secret)

RefreshTokenRow(user_id, tokenString) ==
  [user_id |-> user_id, token |-> tokenString,
   expires_at |-> now + RefreshTTL, is_revoked |-> FALSE]

\* ------------------------------------------------ adapter/postgres/token
\* SELECT ... FROM tokens WHERE user_id = $1
GetRefreshTokenByUserID(userID) == {t \in tokens : t.user_id = userID}

\* INSERT ... ON CONFLICT (user_id) DO UPDATE SET token, expires_at,
\* is_revoked, updated_at: the table after the statement.
\* Mutant: a plain INSERT, without the ON CONFLICT replacement.
UpsertInsertOnly(table, token) == table \cup {token}

UpsertRefreshToken(table, token) ==
  {t \in table : t.user_id # token.user_id} \cup {token}

\* The upsert when pool.Exec returns an error: the statement did not run,
\* the table is as before and the caller gets ErrInternal.
UpsertFailed(table, token) == table

\* Mutant: the is_revoked flag of the stored row is not looked at.
ValidateRefreshTokenIgnoresRevoked(tokenString) ==
  IF ~ParseOK(tokenString)
    THEN AppError("JWT_VALIDATION", "failed to parse refresh token")
  ELSE LET rows == GetRefreshTokenByUserID(tokenString.user_id) IN
    IF rows = {}
      THEN AppError("JWT_DB", "failed to fetch refresh token")
    ELSE LET dbToken == CHOOSE t \in rows : TRUE IN
      IF dbToken.token # tokenString
        THEN AppError("JWT_VALIDATION", "refresh token mismatch")
      ELSE IF now > dbToken.expires_at
        THEN AppError("JWT_VALIDATION", "refresh token expired")
      ELSE OK

ValidateRefreshToken(tokenString) ==
  IF ~ParseOK(tokenString)
    THEN AppError("JWT_VALIDATION", "failed to parse refresh token")
  ELSE LET rows == GetRefreshTokenByUserID(tokenString.user_id) IN
    IF rows = {}
      THEN AppError("JWT_DB", "failed to fetch refresh token")
    ELSE LET dbToken == CHOOSE t \in rows : TRUE IN
      IF dbToken.token # tokenString
        THEN AppError("JWT_VALIDATION", "refresh token mismatch")
      ELSE IF now > dbToken.expires_at
        THEN AppError("JWT_VALIDATION", "refresh token expired")
      ELSE IF dbToken.is_revoked
        THEN AppError("JWT_VALIDATION", "refresh token revoked")
      ELSE OK

\* --------------------------------------- adapter/postgres/customer, seller
\* SELECT ... FROM users u JOIN customers c ON u.id = c.user_id
\*   WHERE u.<field> = $1        (the ids of the rows the query returns)
ProfileTable(userType) == IF userType = "customer" THEN customers ELSE sellers

getByField(userType, field, value) ==
  {id \in DOMAIN users : id \in ProfileTable(userType) /\ users[id][field] = value}

\* ------------------------------------------------------------- requests
\* Values a client can put in a request.  BadUsername, BadEmail and
\* BadPassword fail the validate tags (min=3, email, min=8); Blank is a
\* username of three spaces, which passes min=3 and is empty once trimmed.
BadUsername == "al"
BadEmail == "nomail"
BadPassword == "short"
Blank == "   "

TrimSpace(s) == IF s = Blank THEN "" ELSE s

WellFormedRegister ==
  [username : Usernames, email : Emails, password : {"longenough"}, user_type : UserTypes]

\* The well-formed requests, and one request per validate tag that fails.
SampleRegister ==
  [username |-> "alice", email |-> "a@x.com", password |-> "longenough",
   user_type |-> "customer"]

RegisterRequests ==
  WellFormedRegister \cup
  { [SampleRegister EXCEPT !.username = BadUsername],
    [SampleRegister EXCEPT !.email = BadEmail],
    [SampleRegister EXCEPT !.password = BadPassword],
    [SampleRegister EXCEPT !.user_type = "admin"] }

WellFormedLogin ==
  [username : Usernames \cup {"", Blank}, email : Emails \cup {""},
   password : Passwords, user_type : UserTypes]

SampleLogin ==
  [username |-> "", email |-> "a@x.com", password |-> "longenough",
   user_type |-> "customer"]

LoginRequests ==
  WellFormedLogin \cup
  { [SampleLogin EXCEPT !.email = BadEmail],
    [SampleLogin EXCEPT !.password = ""] }

UpdateAuthRequests ==
  [email : Emails \cup {""}, username : Usernames \cup {""},
   old_password : Passwords \cup {""}, new_password : Passwords \cup {""}]

\* validate:"required,min=3,max=50" / "required,email" / "required,min=8" /
\* "required,oneof=customer seller"
ValidRegisterRequest(req) ==
  /\ req.username \in Usernames
  /\ req.email \in Emails
  /\ req.password \in Passwords
  /\ req.user_type \in UserTypes

\* validate:"omitempty,email" / "omitempty,min=3" / "required" /
\* "required,oneof=customer seller"
ValidLoginRequest(req) ==
  /\ req.email \in Emails \cup {""}
  /\ req.username \in Usernames \cup {"", Blank}
  /\ req.password # ""
  /\ req.user_type \in UserTypes

\* validate:"omitempty,email" / "omitempty,min=3,max=50" /
\* "required_with=NewPassword" / "omitempty,min=8" / "required"
ValidUpdateAuthRequest(req) ==
  /\ req.email \in Emails \cup {""}
  /\ req.username \in Usernames \cup {""}
  /\ (req.new_password # "" => req.old_password # "")
  /\ req.new_password \in Passwords \cup {""}

\* ------------------------------------------------------------ responses
\* What the last request was and what the caller got back: the operation,
\* the user id the access-token middleware put in the context, the refresh
\* token presented, the error (or OK), the token pair returned, and the
\* collaborators the handler called on the way.
Reply(op, user, tok, res, access, refresh, calls) ==
  [op |-> op, user |-> user, tok |-> tok, code |-> res.code, msg |-> res.msg,
   access |-> access, refresh |-> refresh, calls |-> calls]

Fail(op, user, tok, res, calls) == Reply(op, user, tok, res, NoToken, NoToken, calls)

\* ---------------------------------------------------------- usecase/auth
\* Mutant: only the email probe is made.
RegisterUniquenessEmailOnly(userType, email, username) ==
  IF getByField(userType, "email", email) # {}
    THEN AppError("DUPLICATE", "email already exists")
  ELSE OK

\* Register, the uniqueness probes within the declared role's table.
RegisterUniqueness(userType, email, username) ==
  IF getByField(userType, "email", email) # {}
    THEN AppError("DUPLICATE", "email already exists")
  ELSE IF getByField(userType, "username", username) # {}
    THEN AppError("DUPLICATE", "username already exists")
  ELSE OK

\* Mutant: a request with both identifiers is looked up by username.
LoginIdentifierUsernameWins(username, email) ==
  IF username = "" /\ email = ""
    THEN AppError("VALIDATION", "email or username is required")
  ELSE OK

\* Login, the identifier rules applied to the trimmed fields.
LoginIdentifier(username, email) ==
  IF username # "" /\ email # ""
    THEN AppError("VALIDATION", "provide either username or email, not both")
  ELSE IF username = "" /\ email = ""
    THEN AppError("VALIDATION", "email or username is required")
  ELSE OK

\* Mutant: an omitted new_password is hashed and stored like any other.
UpdateAuthPasswordHashesEmpty(passwordHash, req) ==
  IF req.new_password # "" /\ req.old_password = ""
    THEN [res |-> AppError("VALIDATION", "old password required"), hash |-> passwordHash]
  ELSE IF req.new_password # "" /\ ~CompareHashPassword(passwordHash, req.old_password)
    THEN [res |-> AppError("INVALID_CREDENTIALS", "old password incorrect"), hash |-> passwordHash]
  ELSE [res |-> OK, hash |-> GenerateHashPassword(req.new_password)]

\* Mutant: the old password is required but never compared.
UpdateAuthPasswordUnverified(passwordHash, req) ==
  IF req.new_password = ""
    THEN [res |-> OK, hash |-> passwordHash]
  ELSE IF req.old_password = ""
    THEN [res |-> AppError("VALIDATION", "old password required"), hash |-> passwordHash]
  ELSE [res |-> OK, hash |-> GenerateHashPassword(req.new_password)]

\* UpdateAuth, the password step: the error, or OK with the hash to store.
UpdateAuthPassword(passwordHash, req) ==
  IF req.new_password = ""
    THEN [res |-> OK, hash |-> passwordHash]
  ELSE IF req.old_password = ""
    THEN [res |-> AppError("VALIDATION", "old password required"), hash |-> passwordHash]
  ELSE IF ~CompareHashPassword(passwordHash, req.old_password)
    THEN [res |-> AppError("INVALID_CREDENTIALS", "old password incorrect"), hash |-> passwordHash]
  ELSE [res |-> OK, hash |-> GenerateHashPassword(req.new_password)]

\* revokeRefreshToken: the tokens table after the read and the upsert.
revokeRefreshToken(userID) ==
  LET rows == GetRefreshTokenByUserID(userID) IN
  IF rows = {} THEN tokens
  ELSE LET t == CHOOSE r \in rows : TRUE IN
       UpsertRefreshToken(tokens, [t EXCEPT !.is_revoked = TRUE])

\* The session bound: a token pair may be handed out while fewer than
\* MaxSessions distinct pairs exist.
MayIssue(access, refresh) ==
  Cardinality(issued \cup {access, refresh}) <= 2 * MaxSessions

\* ------------------------------------------------- adapter/postgres/user
\* userRepository.Create: the users row and the subtype row, one transaction.
CreateUser(id, u) == users @@ (id :> u)
CreateSubtype(table, userType, id, u) ==
  IF u.user_type = userType THEN table \cup {id} ELSE table

\* INSERT INTO customers (user_id) / sellers (user_id): every other column
\* of the new row is NULL ("").  first_name stands for the customer columns
\* (first_name, last_name, phone, address, date_birth are written alike),
\* company_name and rating are the seller columns.
NullProfile == [first_name |-> "", company_name |-> "", rating |-> ""]
CreateProfileRow(id) == profile @@ (id :> NullProfile)

\* userRepository.UpdateAuth: UPDATE users SET username, password_hash,
\* email WHERE id = $1.
UpdateAuthRow(id, username, email, password) ==
  [users EXCEPT ![id] = [@ EXCEPT !.username = username,
                                  !.email = email,
                                  !.password_hash = password]]

\* userRepository.Delete: DELETE FROM users WHERE id = $1.
DeleteUserRow(id) == [i \in DOMAIN users \ {id} |-> users[i]]

\* customers.user_id REFERENCES users(id) ON DELETE CASCADE, and the same
\* for the sellers and tokens tables.
CustomersCascade(id) == customers \ {id}
SellersCascade(id) == sellers \ {id}
TokensCascade(table, id) == {t \in table : t.user_id # id}
ProfileCascade(id) == [i \in DOMAIN profile \ {id} |-> profile[i]]

\* --------------------------------------------------- handler/middleware
\* AccessTokenMiddleware: the context (userID, userType) or a 401.
AccessTokenMiddleware(tokenString) ==
  IF ValidateAccessToken(tokenString) = OK
    THEN [res |-> OK, userID |-> tokenString.user_id, userType |-> tokenString.user_type]
    ELSE [res |-> AppError("UNAUTHORIZED", "invalid access token"),
          userID |-> NoUser, userType |-> ""]

\* Strings a client can present: every token handed out so far, or a forgery.
Presentable == issued \cup {ForgedToken}

\* The refresh tokens among them (exp = iat + 30 days), or a forgery.
RefreshPresentable == {t \in issued : t.exp = t.iat + RefreshTTL} \cup {ForgedToken}

\* ------------------------------------------------------------ operations
\* Requests in flight: each of the MaxCalls slots is idle or holds a request
\* between two of its datastore statements, with the values it has read or
\* computed so far.
MaxCalls == 2
Idle == [op |-> "", pc |-> "idle"]
NoCalls == [c \in 1..MaxCalls |-> Idle]

Init ==
  /\ users = << >>
  /\ customers = {}
  /\ sellers = {}
  /\ profile = << >>
  /\ tokens = {}
  /\ nextID = 0
  /\ now = 0
  /\ issued = {}
  /\ last = Fail("none", NoUser, NoToken, OK, {})
  /\ products = << >>
  /\ inflight = NoCalls

\* POST /auth/register
Register(req) ==
  LET id == nextID + 1
      userType == req.user_type
      unique == RegisterUniqueness(userType, req.email, req.username)
      u == [user_type |-> userType, username |-> req.username, email |-> req.email,
            password_hash |-> GenerateHashPassword(req.password)]
      access == GenerateAccessToken(id, userType)
      refresh == RefreshTokenString(id, userType)
  IN
  IF ~ValidRegisterRequest(req) THEN
    /\ last' = Fail("Register", NoUser, NoToken, AppError("VALIDATION", "invalid input"), {})
    /\ UNCHANGED <<db, nextID, now, inflight, products, issued>>
  ELSE IF unique # OK THEN
    /\ last' = Fail("Register", NoUser, NoToken, unique, {"getByField"})
    /\ UNCHANGED <<db, nextID, now, inflight, products, issued>>
  ELSE
    /\ nextID < MaxUsers
    /\ MayIssue(access, refresh)
    /\ users' = CreateUser(id, u)
    /\ customers' = CreateSubtype(customers, "customer", id, u)
    /\ sellers' = CreateSubtype(sellers, "seller", id, u)
    /\ profile' = CreateProfileRow(id)
    /\ tokens' = UpsertRefreshToken(tokens, RefreshTokenRow(id, refresh))
    /\ nextID' = id
    /\ issued' = issued \cup {access, refresh}
    /\ last' = Reply("Register", NoUser, NoToken, OK, access, refresh,
                     {"getByField", "GenerateHashPassword", "userRepo.Create",
                      "UpsertRefreshToken"})
    /\ UNCHANGED <<now, inflight, products>>

\* userRepository.Create when one of its steps fails: the deferred rollback
\* undoes the inserts made so far (users, customers, sellers, profile).
CreateSteps == {"begin", "insert users", "insert subtype", "commit"}

\* Mutant: no rollback, so a failure after the users insert leaves that row.
CreateFailedKeepsIdentity(step, id, u) ==
  [users |-> IF step \in {"insert subtype", "commit"} THEN CreateUser(id, u) ELSE users,
   customers |-> customers, sellers |-> sellers, profile |-> profile]

CreateFailed(step, id, u) ==
  [users |-> users, customers |-> customers, sellers |-> sellers, profile |-> profile]

\* POST /auth/register with a datastore or signing fault on the way: the
\* request is well-formed and unique, and either userRepo.Create fails at
\* `step`, or (step = "upsert") the user is created and the token-store
\* upsert inside GenerateRefreshToken fails.
RegisterFault(req, step) ==
  LET id == nextID + 1
      userType == req.user_type
      u == [user_type |-> userType, username |-> req.username, email |-> req.email,
            password_hash |-> GenerateHashPassword(req.password)]
  IN
  /\ ValidRegisterRequest(req)
  /\ RegisterUniqueness(userType, req.email, req.username) = OK
  /\ nextID < MaxUsers
  /\ IF step \in CreateSteps THEN
       /\ users' = CreateFailed(step, id, u).users
       /\ customers' = CreateFailed(step, id, u).customers
       /\ sellers' = CreateFailed(step, id, u).sellers
       /\ profile' = CreateFailed(step, id, u).profile
       /\ last' = Fail("Register", NoUser, NoToken,
                       AppError("USER_CREATE_FAIL", "failed to create user"),
                       {"getByField", "GenerateHashPassword", "userRepo.Create"})
       /\ UNCHANGED <<tokens, nextID, now, inflight, products, issued>>
     ELSE
       /\ users' = CreateUser(id, u)
       /\ customers' = CreateSubtype(customers, "customer", id, u)
       /\ sellers' = CreateSubtype(sellers, "seller", id, u)
       /\ profile' = CreateProfileRow(id)
       /\ nextID' = id
       /\ tokens' = UpsertFailed(tokens, RefreshTokenRow(id, RefreshTokenString(id, userType)))
       /\ last' = Fail("Register", NoUser, NoToken,
                       AppError("JWT_GENERATION", "failed to generate refresh token"),
                       {"getByField", "GenerateHashPassword", "userRepo.Create",
                        "UpsertRefreshToken"})
       /\ UNCHANGED <<now, inflight, products, issued>>

\* POST /auth/login
Login(req) ==
  LET userType == req.user_type
      username == TrimSpace(req.username)
      email == TrimSpace(req.email)
      ident == LoginIdentifier(username, email)
      lookupBy == IF username # "" THEN "username" ELSE "email"
      identifier == IF username # "" THEN username ELSE email
      found == getByField(userType, lookupBy, identifier)
      invalid == AppError("INVALID_CREDENTIALS", "invalid credentials")
  IN
  IF ~ValidLoginRequest(req) THEN
    /\ last' = Fail("Login", NoUser, NoToken, AppError("VALIDATION", "invalid input"), {})
    /\ UNCHANGED <<db, nextID, now, inflight, products, issued>>
  ELSE IF ident # OK THEN
    /\ last' = Fail("Login", NoUser, NoToken, ident, {})
    /\ UNCHANGED <<db, nextID, now, inflight, products, issued>>
  ELSE IF found = {} THEN
    /\ last' = Fail("Login", NoUser, NoToken, invalid, {"getByField"})
    /\ UNCHANGED <<db, nextID, now, inflight, products, issued>>
  ELSE \E id \in found :
    LET access == GenerateAccessToken(id, userType)
        refresh == RefreshTokenString(id, userType)
    IN
    IF ~CompareHashPassword(users[id].password_hash, req.password) THEN
      /\ last' = Fail("Login", NoUser, NoToken, invalid, {"getByField", "CompareHashPassword"})
      /\ UNCHANGED <<db, nextID, now, inflight, products, issued>>
    ELSE
      /\ MayIssue(access, refresh)
      /\ tokens' = UpsertRefreshToken(tokens, RefreshTokenRow(id, refresh))
      /\ issued' = issued \cup {access, refresh}
      /\ last' = Reply("Login", NoUser, NoToken, OK, access, refresh,
                       {"getByField", "CompareHashPassword", "UpsertRefreshToken"})
      /\ UNCHANGED <<users, customers, sellers, profile, nextID, now, inflight, products>>

\* Mutant: the access token signed before the failure is still returned.
LoginFaultLeaksAccessToken(req) ==
  LET userType == req.user_type
      username == TrimSpace(req.username)
      email == TrimSpace(req.email)
      lookupBy == IF username # "" THEN "username" ELSE "email"
      identifier == IF username # "" THEN username ELSE email
      found == getByField(userType, lookupBy, identifier)
  IN
  /\ ValidLoginRequest(req)
  /\ LoginIdentifier(username, email) = OK
  /\ \E id \in found :
       /\ CompareHashPassword(users[id].password_hash, req.password)
       /\ tokens' = UpsertFailed(tokens, RefreshTokenRow(id, RefreshTokenString(id, userType)))
       /\ issued' = issued \cup {GenerateAccessToken(id, userType)}
       /\ last' = Reply("Login", NoUser, NoToken,
                        AppError("JWT_GENERATION", "failed to generate refresh token"),
                        GenerateAccessToken(id, userType), NoToken,
                        {"getByField", "CompareHashPassword", "UpsertRefreshToken"})
       /\ UNCHANGED <<users, customers, sellers, profile, nextID, now, inflight, products>>

\* POST /auth/login with correct credentials when the token-store upsert
\* inside GenerateRefreshToken fails.
LoginFault(req) ==
  LET userType == req.user_type
      username == TrimSpace(req.username)
      email == TrimSpace(req.email)
      lookupBy == IF username # "" THEN "username" ELSE "email"
      identifier == IF username # "" THEN username ELSE email
      found == getByField(userType, lookupBy, identifier)
  IN
  /\ ValidLoginRequest(req)
  /\ LoginIdentifier(username, email) = OK
  /\ \E id \in found :
       /\ CompareHashPassword(users[id].password_hash, req.password)
       /\ tokens' = UpsertFailed(tokens, RefreshTokenRow(id, RefreshTokenString(id, userType)))
       /\ last' = Fail("Login", NoUser, NoToken,
                       AppError("JWT_GENERATION", "failed to generate refresh token"),
                       {"getByField", "CompareHashPassword", "UpsertRefreshToken"})
       /\ UNCHANGED <<users, customers, sellers, profile, nextID, now, inflight, products, issued>>

\* PUT /auth/update-auth, behind AccessTokenMiddleware
UpdateAuth(ctx, tokenString, req) ==
  LET userID == ctx.userID IN
  IF ~ValidUpdateAuthRequest(req) THEN
    /\ last' = Fail("UpdateAuth", NoUser, NoToken, AppError("VALIDATION", "invalid input"), {})
    /\ UNCHANGED <<db, nextID, now, inflight, products, issued>>
  ELSE IF ValidateRefreshToken(tokenString) # OK THEN
    /\ last' = Fail("UpdateAuth", NoUser, NoToken,
                    AppError("INVALID_TOKEN", "invalid refresh token"),
                    {"GetRefreshTokenByUserID"})
    /\ UNCHANGED <<db, nextID, now, inflight, products, issued>>
  ELSE IF userID \notin DOMAIN users THEN
    /\ last' = Fail("UpdateAuth", NoUser, NoToken,
                    AppError("NOT_FOUND", "user not found"),
                    {"GetRefreshTokenByUserID", "userRepo.GetByID"})
    /\ UNCHANGED <<db, nextID, now, inflight, products, issued>>
  ELSE
    LET userByID == users[userID]
        pw == UpdateAuthPassword(userByID.password_hash, req)
        email == IF req.email # "" THEN req.email ELSE userByID.email
        username == IF req.username # "" THEN req.username ELSE userByID.username
    IN
    IF pw.res # OK THEN
      /\ last' = Fail("UpdateAuth", NoUser, NoToken, pw.res,
                      {"GetRefreshTokenByUserID", "userRepo.GetByID", "CompareHashPassword"})
      /\ UNCHANGED <<db, nextID, now, inflight, products, issued>>
    ELSE
      /\ users' = UpdateAuthRow(userID, username, email, pw.hash)
      /\ tokens' = revokeRefreshToken(userID)
      /\ last' = Fail("UpdateAuth", userID, tokenString, OK,
                      {"GetRefreshTokenByUserID", "userRepo.GetByID",
                       "userRepo.UpdateAuth", "UpsertRefreshToken"})
      /\ UNCHANGED <<customers, sellers, profile, nextID, now, inflight, products, issued>>

\* The collaborators DeleteUser calls: the upsert only when a token row was read.
DeleteUserCalls(userID) ==
  {"GetRefreshTokenByUserID", "userRepo.Delete"}
  \cup (IF GetRefreshTokenByUserID(userID) # {} THEN {"UpsertRefreshToken"} ELSE {})

\* Mutant: a missing token row aborts the deletion.
DeleteUserNeedsTokenRow(ctx) ==
  LET userID == ctx.userID
      revoked == revokeRefreshToken(userID)
  IN
  IF userID \notin DOMAIN users \/ GetRefreshTokenByUserID(userID) = {} THEN
    /\ tokens' = revoked
    /\ last' = Fail("DeleteUser", NoUser, NoToken, AppError("NOT_FOUND", "user not found"),
                    DeleteUserCalls(userID))
    /\ UNCHANGED <<users, customers, sellers, profile, nextID, now, inflight, products, issued>>
  ELSE
    /\ users' = DeleteUserRow(userID)
    /\ customers' = CustomersCascade(userID)
    /\ sellers' = SellersCascade(userID)
    /\ profile' = ProfileCascade(userID)
    /\ tokens' = TokensCascade(revoked, userID)
    /\ last' = Fail("DeleteUser", userID, NoToken, OK, DeleteUserCalls(userID))
    /\ UNCHANGED <<nextID, now, inflight, products, issued>>

\* Mutant: the rows affected by the DELETE are not counted.
DeleteUserIgnoresRowCount(ctx) ==
  LET userID == ctx.userID
      revoked == revokeRefreshToken(userID)
  IN
  /\ users' = DeleteUserRow(userID)
  /\ customers' = CustomersCascade(userID)
  /\ sellers' = SellersCascade(userID)
  /\ profile' = ProfileCascade(userID)
  /\ tokens' = TokensCascade(revoked, userID)
  /\ last' = Fail("DeleteUser", userID, NoToken, OK, DeleteUserCalls(userID))
  /\ UNCHANGED <<nextID, now, inflight, products, issued>>

\* DELETE /auth/delete, behind AccessTokenMiddleware
DeleteUser(ctx) ==
  LET userID == ctx.userID
      revoked == revokeRefreshToken(userID)
  IN
  IF userID \notin DOMAIN users THEN
    /\ tokens' = revoked
    /\ last' = Fail("DeleteUser", NoUser, NoToken, AppError("NOT_FOUND", "user not found"),
                    DeleteUserCalls(userID))
    /\ UNCHANGED <<users, customers, sellers, profile, nextID, now, inflight, products, issued>>
  ELSE
    /\ users' = DeleteUserRow(userID)
    /\ customers' = CustomersCascade(userID)
    /\ sellers' = SellersCascade(userID)
    /\ profile' = ProfileCascade(userID)
    /\ tokens' = TokensCascade(revoked, userID)
    /\ last' = Fail("DeleteUser", userID, NoToken, OK, DeleteUserCalls(userID))
    /\ UNCHANGED <<nextID, now, inflight, products, issued>>

\* The context of an in-process call of the usecase for user id u.
CallerContext(u) == [res |-> OK, userID |-> u, userType |-> ""]

\* strings.ToLower(strings.TrimSpace(userType))
NormalizeUserType(userType) ==
  CASE userType = " Customer " -> "customer"
    [] userType = "SELLER" -> "seller"
    [] OTHER -> userType

\* validate:"omitempty,min=2,max=50" (first_name) / "omitempty,min=2,max=100"
\* (company_name) / "omitempty,min=0,max=5" (rating; 0 is the omitted value)
ValidCustomerProfileRequest(req) == req.first_name \in {"", "Ann"}
ValidSellerProfileRequest(req) ==
  req.company_name \in {"", "Acme"} /\ req.rating \in {"0", "4"}

\* customerRepository.UpdateProfile / sellerRepository.UpdateProfile: UPDATE
\* ... WHERE user_id = $1 sets every column from the request, an empty
\* string as NULL; the rows affected are not counted.
UpdateCustomerRow(userID, req) ==
  IF userID \in customers
    THEN [profile EXCEPT ![userID] = [@ EXCEPT !.first_name = req.first_name]]
    ELSE profile

UpdateSellerRow(userID, req) ==
  IF userID \in sellers
    THEN [profile EXCEPT ![userID] = [@ EXCEPT !.company_name = req.company_name,
                                               !.rating = req.rating]]
    ELSE profile

\* Mutant: the payload's type is not asserted; its fields are used as they are.
UpdateProfileUnasserted(userID, userType, payload) ==
  LET t == NormalizeUserType(userType) IN
  IF t = "customer" THEN
    /\ profile' = UpdateCustomerRow(userID, payload)
    /\ last' = Fail("UpdateProfile", userID, NoToken, OK, {"customerRepo.UpdateProfile"})
    /\ UNCHANGED <<users, customers, sellers, tokens, nextID, now, inflight, products, issued>>
  ELSE IF t = "seller" THEN
    /\ profile' = UpdateSellerRow(userID, payload)
    /\ last' = Fail("UpdateProfile", userID, NoToken, OK, {"sellerRepo.UpdateProfile"})
    /\ UNCHANGED <<users, customers, sellers, tokens, nextID, now, inflight, products, issued>>
  ELSE
    /\ last' = Fail("UpdateProfile", NoUser, NoToken,
                    AppError("INVALID_TYPE", "unsupported user type"), {})
    /\ UNCHANGED <<db, nextID, now, inflight, products, issued>>

\* authUsecase.UpdateProfile(ctx, userID, userType, payload)
UpdateProfile(userID, userType, payload) ==
  LET t == NormalizeUserType(userType) IN
  IF t = "customer" THEN
    IF payload.kind # "CustomerProfileRequest" THEN
      /\ last' = Fail("UpdateProfile", NoUser, NoToken,
                      AppError("INVALID_PAYLOAD", "invalid customer payload"), {})
      /\ UNCHANGED <<db, nextID, now, inflight, products, issued>>
    ELSE IF ~ValidCustomerProfileRequest(payload) THEN
      /\ last' = Fail("UpdateProfile", NoUser, NoToken,
                      AppError("VALIDATION", "invalid customer profile data"), {})
      /\ UNCHANGED <<db, nextID, now, inflight, products, issued>>
    ELSE
      /\ profile' = UpdateCustomerRow(userID, payload)
      /\ last' = Fail("UpdateProfile", userID, NoToken, OK, {"customerRepo.UpdateProfile"})
      /\ UNCHANGED <<users, customers, sellers, tokens, nextID, now, inflight, products, issued>>
  ELSE IF t = "seller" THEN
    IF payload.kind # "SellerProfileRequest" THEN
      /\ last' = Fail("UpdateProfile", NoUser, NoToken,
                      AppError("INVALID_PAYLOAD", "invalid seller payload"), {})
      /\ UNCHANGED <<db, nextID, now, inflight, products, issued>>
    ELSE IF ~ValidSellerProfileRequest(payload) THEN
      /\ last' = Fail("UpdateProfile", NoUser, NoToken,
                      AppError("VALIDATION", "invalid seller profile data"), {})
      /\ UNCHANGED <<db, nextID, now, inflight, products, issued>>
    ELSE
      /\ profile' = UpdateSellerRow(userID, payload)
      /\ last' = Fail("UpdateProfile", userID, NoToken, OK, {"sellerRepo.UpdateProfile"})
      /\ UNCHANGED <<users, customers, sellers, tokens, nextID, now, inflight, products, issued>>
  ELSE
    /\ last' = Fail("UpdateProfile", NoUser, NoToken,
                    AppError("INVALID_TYPE", "unsupported user type"), {})
    /\ UNCHANGED <<db, nextID, now, inflight, products, issued>>

\* c.ShouldBindJSON into the request type of the context's role: the fields
\* the body has are copied, the others keep their zero value.
BindCustomerProfile(body) ==
  [kind |-> "CustomerProfileRequest", first_name |-> body.first_name,
   company_name |-> "", rating |-> "0"]
BindSellerProfile(body) ==
  [kind |-> "SellerProfileRequest", first_name |-> "",
   company_name |-> body.company_name, rating |-> body.rating]

\* Profile bodies: BadName fails min=2, BadRating fails max=5.
BadName == "A"
BadRating == "9"
ProfileBodies ==
  [first_name : {"", "Ann", BadName}, company_name : {"", "Acme"}, rating : {"0", "4"}]
  \cup {[first_name |-> "", company_name |-> "Acme", rating |-> BadRating]}

\* Payloads an in-process caller can hand to authUsecase.UpdateProfile: the
\* two request types by value, or anything else (a pointer, a map).
ProfilePayloads ==
  {BindCustomerProfile(b) : b \in ProfileBodies}
  \cup {BindSellerProfile(b) : b \in ProfileBodies}
  \cup {[kind |-> "other", first_name |-> "Ann", company_name |-> "Acme", rating |-> "4"]}

UserTypeStrings == {"customer", "seller", " Customer ", "SELLER", "admin", ""}

\* PUT /auth/update-profile, behind AccessTokenMiddleware
HandleUpdateProfile(ctx, body) ==
  LET req == IF ctx.userType = "customer" THEN BindCustomerProfile(body)
             ELSE BindSellerProfile(body)
      valid == IF ctx.userType = "customer" THEN ValidCustomerProfileRequest(req)
               ELSE ValidSellerProfileRequest(req)
  IN
  IF ctx.userType \notin {"customer", "seller"} THEN
    /\ last' = Fail("UpdateProfile", NoUser, NoToken,
                    AppError("", "internal server error"), {})
    /\ UNCHANGED <<db, nextID, now, inflight, products, issued>>
  ELSE IF ~valid THEN
    /\ last' = Fail("UpdateProfile", NoUser, NoToken,
                    AppError("VALIDATION", "invalid input"), {})
    /\ UNCHANGED <<db, nextID, now, inflight, products, issued>>
  ELSE UpdateProfile(ctx.userID, ctx.userType, req)

\* The clock advances by one tick.
Tick ==
  /\ now < MaxTime
  /\ now' = now + 1
  /\ UNCHANGED <<db, nextID, issued, last, products, inflight>>

\* A protected route called with a token the middleware rejects: 401, and
\* the handler does not run.
Unauthorized(tokenString) ==
  /\ AccessTokenMiddleware(tokenString).res # OK
  /\ last' = Fail("Unauthorized", NoUser, NoToken, AccessTokenMiddleware(tokenString).res, {})
  /\ UNCHANGED <<db, nextID, now, inflight, products, issued>>

\* The contexts the middleware lets through.
Contexts == {c \in {AccessTokenMiddleware(a) : a \in Presentable} : c.res = OK}

\* Requests of any content, all arriving within one clock second.
NextIdentity ==
  \/ \E req \in RegisterRequests : Register(req)
  \/ \E req \in LoginRequests : Login(req)
  \/ \E ctx \in Contexts, t \in RefreshPresentable, req \in UpdateAuthRequests :
       UpdateAuth(ctx, t, req)
  \/ \E ctx \in Contexts : DeleteUser(ctx)
  \/ \E a \in Presentable : Unauthorized(a)

SpecIdentity == Init /\ [][NextIdentity]_vars

\* The clock runs.  One registrant per role, logins that name exactly one
\* identifier, and credential updates that change the password only.
SessionRegisterRequests ==
  { SampleRegister,
    [username |-> "bob", email |-> "b@x.com", password |-> "longenough",
     user_type |-> "seller"] }

SessionUpdateRequests == {r \in UpdateAuthRequests : r.email = "" /\ r.username = ""}

SessionLoginRequests ==
  {r \in WellFormedLogin : r.username # Blank /\ ((r.username = "") # (r.email = ""))}

NextSession ==
  \/ \E req \in SessionRegisterRequests : Register(req)
  \/ \E req \in SessionLoginRequests : Login(req)
  \/ \E ctx \in Contexts, t \in RefreshPresentable, req \in SessionUpdateRequests :
       UpdateAuth(ctx, t, req)
  \/ \E ctx \in Contexts : DeleteUser(ctx)
  \/ \E a \in Presentable : Unauthorized(a)
  \/ Tick

SpecSession == Init /\ [][NextSession]_vars

\* Accounts over their whole life, within one clock second: registration
\* and login with and without datastore faults, credential and profile
\* updates, deletion, and in-process calls of authUsecase.UpdateProfile.
RegisterFaultSteps == CreateSteps \cup {"upsert"}

NextAccount ==
  \/ \E req \in SessionRegisterRequests : Register(req)
  \/ \E req \in SessionRegisterRequests, step \in RegisterFaultSteps :
       RegisterFault(req, step)
  \/ \E req \in SessionLoginRequests : Login(req)
  \/ \E req \in SessionLoginRequests : LoginFault(req)
  \/ \E ctx \in Contexts, t \in RefreshPresentable, req \in SessionUpdateRequests :
       UpdateAuth(ctx, t, req)
  \/ \E ctx \in Contexts, body \in ProfileBodies : HandleUpdateProfile(ctx, body)
  \/ \E userID \in 1..MaxUsers, userType \in UserTypeStrings, payload \in ProfilePayloads :
       UpdateProfile(userID, userType, payload)
  \/ \E ctx \in Contexts : DeleteUser(ctx)
  \/ \E u \in 1..MaxUsers : DeleteUser(CallerContext(u))
  \/ \E a \in Presentable : Unauthorized(a)

SpecAccount == Init /\ [][NextAccount]_vars

\* One account while the clock runs: it registers, logs in by username,
\* changes its password (well-formed requests and malformed ones), and is
\* deleted and registered again.
CredentialLoginRequests ==
  {r \in WellFormedLogin : r.username \in Usernames /\ r.email = "" /\ r.user_type = "customer"}

NextCredential ==
  \/ Register(SampleRegister)
  \/ \E req \in CredentialLoginRequests : Login(req)
  \/ \E ctx \in Contexts, t \in RefreshPresentable, req \in SessionUpdateRequests :
       UpdateAuth(ctx, t, req)
  \/ \E ctx \in Contexts : DeleteUser(ctx)
  \/ \E a \in Presentable : Unauthorized(a)
  \/ Tick

SpecCredential == Init /\ [][NextCredential]_vars

\* ======================================================= datastore faults
\* getByField's error for the caller: every Scan error, a failed query as
\* much as pgx.ErrNoRows, is returned as NOT_FOUND wrapping ErrNotFound.
ScanError(failed, rows) ==
  IF failed \/ rows = {} THEN "ErrNotFound" ELSE "nil"

\* Register's uniqueness probes when the query of probe `failed` ("email",
\* "username" or "none") fails: existingErr is whatever the last probe made
\* returned, and only an error that is not ErrNotFound gives REPO.
RegisterUniquenessProbes(userType, email, username, failed) ==
  LET emailErr == ScanError(failed = "email", getByField(userType, "email", email))
      usernameErr == ScanError(failed = "username", getByField(userType, "username", username))
  IN
  IF emailErr = "nil" THEN AppError("DUPLICATE", "email already exists")
  ELSE IF usernameErr = "nil" THEN AppError("DUPLICATE", "username already exists")
  ELSE IF usernameErr # "ErrNotFound" THEN AppError("REPO", "uniqueness check failed")
  ELSE OK

\* POST /auth/register while the query of one uniqueness probe fails (the
\* other statements of the request run normally).
RegisterProbeFault(req, failed) ==
  LET id == nextID + 1
      userType == req.user_type
      unique == RegisterUniquenessProbes(userType, req.email, req.username, failed)
      u == [user_type |-> userType, username |-> req.username, email |-> req.email,
            password_hash |-> GenerateHashPassword(req.password)]
      access == GenerateAccessToken(id, userType)
      refresh == RefreshTokenString(id, userType)
  IN
  /\ ValidRegisterRequest(req)
  /\ IF unique # OK THEN
       /\ last' = Fail("Register", NoUser, NoToken, unique, {"getByField", failed})
       /\ UNCHANGED <<db, nextID, now, inflight, products, issued>>
     ELSE
       /\ nextID < MaxUsers
       /\ MayIssue(access, refresh)
       /\ users' = CreateUser(id, u)
       /\ customers' = CreateSubtype(customers, "customer", id, u)
       /\ sellers' = CreateSubtype(sellers, "seller", id, u)
       /\ profile' = CreateProfileRow(id)
       /\ tokens' = UpsertRefreshToken(tokens, RefreshTokenRow(id, refresh))
       /\ nextID' = id
       /\ issued' = issued \cup {access, refresh}
       /\ last' = Reply("Register", NoUser, NoToken, OK, access, refresh,
                        {"getByField", failed, "GenerateHashPassword", "userRepo.Create",
                         "UpsertRefreshToken"})
       /\ UNCHANGED <<now, inflight, products>>

\* Mutant: a failed revoke is returned to the caller.
RevokeOutcomeFatal(failed) ==
  IF failed THEN AppError("REVOKE_FAILED", "failed to revoke token") ELSE OK

\* UpdateAuth after revokeRefreshToken: an error is logged, nil is returned.
RevokeOutcome(failed) == OK

\* PUT /auth/update-auth while revokeRefreshToken fails at `step`: "read"
\* is the SELECT of the token row, "write" the upsert of the revoked row.
UpdateAuthRevokeFault(ctx, tokenString, req, step) ==
  LET userID == ctx.userID IN
  /\ ValidUpdateAuthRequest(req)
  /\ ValidateRefreshToken(tokenString) = OK
  /\ userID \in DOMAIN users
  /\ step = "write" => GetRefreshTokenByUserID(userID) # {}
  /\ LET userByID == users[userID]
         pw == UpdateAuthPassword(userByID.password_hash, req)
         email == IF req.email # "" THEN req.email ELSE userByID.email
         username == IF req.username # "" THEN req.username ELSE userByID.username
     IN
     /\ pw.res = OK
     /\ users' = UpdateAuthRow(userID, username, email, pw.hash)
     /\ tokens' = IF step = "read" THEN tokens
                  ELSE UpsertFailed(tokens, CHOOSE t \in GetRefreshTokenByUserID(userID) : TRUE)
     /\ last' = Fail("UpdateAuth", userID, tokenString, RevokeOutcome(TRUE),
                     {"GetRefreshTokenByUserID", "userRepo.GetByID", "userRepo.UpdateAuth",
                      "revokeRefreshToken", step})
     /\ UNCHANGED <<customers, sellers, profile, nextID, now, inflight, products, issued>>

\* Registrations and credential updates within one clock second, each
\* possibly meeting a failing statement.
NextFault ==
  \/ \E req \in SessionRegisterRequests : Register(req)
  \/ \E req \in WellFormedRegister, failed \in {"email", "username"} :
       RegisterProbeFault(req, failed)
  \/ \E ctx \in Contexts, t \in RefreshPresentable, req \in SessionUpdateRequests :
       UpdateAuth(ctx, t, req)
  \/ \E ctx \in Contexts, t \in RefreshPresentable, req \in SessionUpdateRequests,
        step \in {"read", "write"} : UpdateAuthRevokeFault(ctx, t, req, step)

SpecFault == Init /\ [][NextFault]_vars

\* ====================================================== overlapping requests
\* The same operations with their datastore statements as separate steps, so
\* that requests served by different goroutines interleave between two
\* statements.  A step holds one statement (a SELECT, an INSERT .. ON
\* CONFLICT, an UPDATE, a DELETE) and the computation up to the next one.
\* Up to MaxCalls such requests are followed, each in a slot of its own
\* that keeps what the caller got once the request has returned.

\* A request that has returned: what the caller got.
Finished(op, user, tok, res, access, refresh) ==
  [op |-> op, pc |-> "done", user |-> user, tok |-> tok, code |-> res.code,
   msg |-> res.msg, access |-> access, refresh |-> refresh]

Start(c, call) == inflight' = [inflight EXCEPT ![c] = call]

\* A request is taken up by the first slot that has served none.
Free(c) == inflight[c].pc = "idle" /\ \A d \in 1..(c - 1) : inflight[d].pc # "idle"

\* tokens.user_id references users(id): a token row for a missing identity
\* is refused by the datastore.
TokenOwnerExists(userID) == userID \in DOMAIN users

\* Login up to GenerateRefreshToken's SignedString: validation, the lookup
\* (one SELECT), the password comparison and the signing of both tokens.
LoginLookup(c, req) ==
  LET userType == req.user_type
      username == TrimSpace(req.username)
      email == TrimSpace(req.email)
      ident == LoginIdentifier(username, email)
      lookupBy == IF username # "" THEN "username" ELSE "email"
      identifier == IF username # "" THEN username ELSE email
      found == getByField(userType, lookupBy, identifier)
      invalid == AppError("INVALID_CREDENTIALS", "invalid credentials")
  IN
  /\ Free(c)
  /\ UNCHANGED <<db, nextID, now, issued, last, products>>
  /\ IF ~ValidLoginRequest(req) THEN
       Start(c, Finished("Login", NoUser, NoToken, AppError("VALIDATION", "invalid input"),
                         NoToken, NoToken))
     ELSE IF ident # OK THEN
       Start(c, Finished("Login", NoUser, NoToken, ident, NoToken, NoToken))
     ELSE IF found = {} THEN
       Start(c, Finished("Login", NoUser, NoToken, invalid, NoToken, NoToken))
     ELSE \E id \in found :
       LET access == GenerateAccessToken(id, userType)
           refresh == RefreshTokenString(id, userType)
       IN
       IF ~CompareHashPassword(users[id].password_hash, req.password) THEN
         Start(c, Finished("Login", NoUser, NoToken, invalid, NoToken, NoToken))
       ELSE
         /\ MayIssue(access, refresh)
         /\ Start(c, [op |-> "Login", pc |-> "upsert", user |-> id, access |-> access,
                      refresh |-> refresh, row |-> RefreshTokenRow(id, refresh)])

\* GenerateRefreshToken's UpsertRefreshToken, and the return of the pair.
LoginUpsert(c) ==
  LET call == inflight[c] IN
  /\ call.pc = "upsert"
  /\ UNCHANGED <<users, customers, sellers, profile, nextID, now, last, products>>
  /\ IF TokenOwnerExists(call.user) THEN
       /\ tokens' = UpsertRefreshToken(tokens, call.row)
       /\ issued' = issued \cup {call.access, call.refresh}
       /\ Start(c, Finished("Login", call.user, NoToken, OK, call.access, call.refresh))
     ELSE
       /\ tokens' = UpsertFailed(tokens, call.row)
       /\ UNCHANGED issued
       /\ Start(c, Finished("Login", call.user, NoToken,
                            AppError("JWT_GENERATION", "failed to generate refresh token"),
                            NoToken, NoToken))

\* UpdateAuth up to ValidateRefreshToken's SELECT and its checks.
UpdateAuthValidate(c, ctx, tokenString, req) ==
  LET userID == ctx.userID IN
  /\ Free(c)
  /\ UNCHANGED <<db, nextID, now, issued, last, products>>
  /\ IF ~ValidUpdateAuthRequest(req) THEN
       Start(c, Finished("UpdateAuth", userID, tokenString,
                         AppError("VALIDATION", "invalid input"), NoToken, NoToken))
     ELSE IF ValidateRefreshToken(tokenString) # OK THEN
       Start(c, Finished("UpdateAuth", userID, tokenString,
                         AppError("INVALID_TOKEN", "invalid refresh token"), NoToken, NoToken))
     ELSE
       Start(c, [op |-> "UpdateAuth", pc |-> "read", user |-> userID, tok |-> tokenString,
                 req |-> req])

\* userRepo.GetByID and the fields to store, computed from the row read.
UpdateAuthRead(c) ==
  LET call == inflight[c]
      userID == call.user
      req == call.req
  IN
  /\ call.pc = "read"
  /\ UNCHANGED <<db, nextID, now, issued, last, products>>
  /\ IF userID \notin DOMAIN users THEN
       Start(c, Finished("UpdateAuth", userID, call.tok,
                         AppError("NOT_FOUND", "user not found"), NoToken, NoToken))
     ELSE
       LET userByID == users[userID]
           pw == UpdateAuthPassword(userByID.password_hash, req)
           email == IF req.email # "" THEN req.email ELSE userByID.email
           username == IF req.username # "" THEN req.username ELSE userByID.username
       IN
       IF pw.res # OK THEN
         Start(c, Finished("UpdateAuth", userID, call.tok, pw.res, NoToken, NoToken))
       ELSE
         Start(c, [op |-> "UpdateAuth", pc |-> "update", user |-> userID, tok |-> call.tok,
                   req |-> req, username |-> username, email |-> email, hash |-> pw.hash])

\* userRepo.UpdateAuth: the UPDATE; no row affected is UPDATE_FAILED.
UpdateAuthWrite(c) ==
  LET call == inflight[c] IN
  /\ call.pc = "update"
  /\ UNCHANGED <<customers, sellers, profile, tokens, nextID, now, issued, last, products>>
  /\ IF call.user \notin DOMAIN users THEN
       /\ UNCHANGED users
       /\ Start(c, Finished("UpdateAuth", call.user, call.tok,
                            AppError("UPDATE_FAILED", "failed to update user"),
                            NoToken, NoToken))
     ELSE
       /\ users' = UpdateAuthRow(call.user, call.username, call.email, call.hash)
       /\ Start(c, [op |-> "UpdateAuth", pc |-> "revoke read", user |-> call.user,
                    tok |-> call.tok, req |-> call.req])

\* DeleteUser enters revokeRefreshToken at once.
DeleteUserBegin(c, ctx) ==
  /\ Free(c)
  /\ UNCHANGED <<db, nextID, now, issued, last, products>>
  /\ Start(c, [op |-> "DeleteUser", pc |-> "revoke read", user |-> ctx.userID, tok |-> NoToken])

\* Where the caller of revokeRefreshToken goes on: UpdateAuth returns nil
\* whatever the revoke returned, DeleteUser deletes unless the revoke failed.
AfterRevoke(call, failed) ==
  IF call.op = "UpdateAuth" THEN Finished("UpdateAuth", call.user, call.tok, OK, NoToken, NoToken)
  ELSE IF failed THEN
    Finished("DeleteUser", call.user, NoToken,
             AppError("INTERNAL", "internal server error"), NoToken, NoToken)
  ELSE [op |-> "DeleteUser", pc |-> "delete", user |-> call.user, tok |-> NoToken]

\* revokeRefreshToken, the SELECT: no row is not an error.
RevokeRead(c) ==
  LET call == inflight[c]
      rows == GetRefreshTokenByUserID(call.user)
  IN
  /\ call.pc = "revoke read"
  /\ UNCHANGED <<db, nextID, now, issued, last, products>>
  /\ IF rows = {} THEN Start(c, AfterRevoke(call, FALSE))
     ELSE \E t \in rows :
       Start(c, [op |-> call.op, pc |-> "revoke write", user |-> call.user,
                 tok |-> call.tok, row |-> [t EXCEPT !.is_revoked = TRUE]])

\* revokeRefreshToken, the upsert of the row read earlier with IsRevoked set.
RevokeWrite(c) ==
  LET call == inflight[c] IN
  /\ call.pc = "revoke write"
  /\ UNCHANGED <<users, customers, sellers, profile, nextID, now, issued, last, products>>
  /\ IF TokenOwnerExists(call.user) THEN
       /\ tokens' = UpsertRefreshToken(tokens, call.row)
       /\ Start(c, AfterRevoke(call, FALSE))
     ELSE
       /\ tokens' = UpsertFailed(tokens, call.row)
       /\ Start(c, AfterRevoke(call, TRUE))

\* userRepo.Delete: the DELETE with its cascades; no row affected is NOT_FOUND.
DeleteUserWrite(c) ==
  LET call == inflight[c]
      userID == call.user
  IN
  /\ call.pc = "delete"
  /\ UNCHANGED <<nextID, now, issued, last, products>>
  /\ IF userID \notin DOMAIN users THEN
       /\ UNCHANGED db
       /\ Start(c, Finished("DeleteUser", userID, NoToken,
                            AppError("NOT_FOUND", "user not found"), NoToken, NoToken))
     ELSE
       /\ users' = DeleteUserRow(userID)
       /\ customers' = CustomersCascade(userID)
       /\ sellers' = SellersCascade(userID)
       /\ profile' = ProfileCascade(userID)
       /\ tokens' = TokensCascade(tokens, userID)
       /\ Start(c, Finished("DeleteUser", userID, NoToken, OK, NoToken, NoToken))

\* One account, registered before any request overlaps; then logins,
\* credential updates and the deletion run statement by statement.
RaceLogin ==
  [username |-> "alice", email |-> "", password |-> "longenough", user_type |-> "customer"]

RaceUpdateRequests ==
  { [email |-> "b@x.com", username |-> "", old_password |-> "", new_password |-> ""],
    [email |-> "", username |-> "bob", old_password |-> "", new_password |-> ""] }

Quiet == \A c \in 1..MaxCalls : inflight[c].pc = "idle"

NextRace ==
  \/ Quiet /\ Register(SampleRegister)
  \/ \E c \in 1..MaxCalls : LoginLookup(c, RaceLogin)
  \/ \E c \in 1..MaxCalls : LoginUpsert(c)
  \/ \E c \in 1..MaxCalls, ctx \in Contexts, t \in RefreshPresentable \ {ForgedToken},
        req \in RaceUpdateRequests : UpdateAuthValidate(c, ctx, t, req)
  \/ \E c \in 1..MaxCalls : UpdateAuthRead(c)
  \/ \E c \in 1..MaxCalls : UpdateAuthWrite(c)
  \/ \E c \in 1..MaxCalls, ctx \in Contexts : DeleteUserBegin(c, ctx)
  \/ \E c \in 1..MaxCalls : RevokeRead(c)
  \/ \E c \in 1..MaxCalls : RevokeWrite(c)
  \/ \E c \in 1..MaxCalls : DeleteUserWrite(c)
  \/ Tick

SpecRace == Init /\ [][NextRace]_vars

\* ================================================================ catalog
\* The products table (id -> row) lives in the datastore, which outlives
\* the process: the service is constructed over the pool and works on the
\* rows it finds.  A row keeps title, category_id and is_active; seller_id,
\* description, price and the timestamps are left out.
ProductIDs == {"p1", "p2"}
FreshProductIDs == {"p3"}
Titles == {"lamp", "desk"}
CategoryIDs == {"c1", "c2"}

ProductRow(title, categoryID, isActive) ==
  [title |-> title, category_id |-> categoryID, is_active |-> isActive]

\* Tables a datastore can hold when the service starts: any rows over the
\* sample ids with pairwise distinct titles.
SeededProducts ==
  {t \in UNION {[S -> {ProductRow(ti, c, TRUE) : ti \in Titles, c \in CategoryIDs}] :
                  S \in SUBSET ProductIDs} :
     \A x, y \in DOMAIN t : x # y => t[x].title # t[y].title}

\* What a catalog call was given and what it returned: the operation, its
\* arguments, the error (or OK), the <<limit, offset>> handed to the
\* repository's list query (<< >> when none was made) and the number of
\* rows that came back.
CatalogReply(op, args, res, listed, count) ==
  [op |-> op, args |-> args, code |-> res.code, msg |-> res.msg,
   listed |-> listed, count |-> count]

\* ---- go-playground/validator as the usecase calls it
\* Values as reflect sees them: a struct, a nil pointer, or a pointer to a value.
StructValue(req) == [kind |-> "struct", val |-> req]
NilPtr == [kind |-> "nil"]
PtrTo(v) == [kind |-> "ptr", elem |-> v]

\* The request DTOs are not part of the sources at hand; a request carries
\* the fields the usecase reads, and a product's price is never negative.
ValidProductRequest(req) == req.price >= 0

\* Validate.StructCtx(ctx, s): one pointer level is dereferenced; anything
\* that is not a struct after that is an InvalidValidationError; a struct
\* is validated against its tags.
StructCtx(s) ==
  LET val == IF s.kind = "ptr" THEN s.elem ELSE s IN
  IF val.kind # "struct" THEN "InvalidValidationError"
  ELSE IF ValidProductRequest(val.val) THEN "nil"
  ELSE "ValidationErrors"

\* ---- adapter/postgres/product
\* getBy(ctx, "title", value): the rows with that title (LIMIT 1 picks one).
GetByTitle(title) == {i \in DOMAIN products : products[i].title = title}

CreateProductRow(id, row) == products @@ (id :> row)

\* UPDATE products SET title, description, price, updated_at, category_id,
\* is_active WHERE id: no row, no change.
UpdateProductRow(id, row) ==
  [i \in DOMAIN products |-> IF i = id THEN row ELSE products[i]]

DeleteProductRow(id) == [i \in DOMAIN products \ {id} |-> products[i]]

\* SELECT ... WHERE category_id LIMIT limit OFFSET offset: how many rows
\* come back (the query has no ORDER BY, so which ones is not fixed).
ListCount(n, limit, offset) ==
  LET rest == IF n > offset THEN n - offset ELSE 0 IN
  IF rest > limit THEN limit ELSE rest

ListProductRows(categoryID, limit, offset) ==
  ListCount(Cardinality({i \in DOMAIN products : products[i].category_id = categoryID}),
            limit, offset)

\* ---- usecase: limit and offset of the list operations
ProductListMax == 100
ProductListDefault == 40
CategoryListMax == 100
CategoryListDefault == 40
ImageListMax == 20
ImageListDefault == 20

\* Mutant: only the upper end of the range is looked at.
ClampLimitUpperOnly(limit, max, default) == IF limit > max THEN default ELSE limit

ClampLimit(limit, max, default) ==
  IF limit < 0 \/ limit > max THEN default ELSE limit

ClampOffset(offset) == IF offset < 0 THEN 0 ELSE offset

\* ---- usecase/product
ProductRequests ==
  [nil : {FALSE}, id : ProductIDs, category_id : CategoryIDs, title : Titles \cup {""},
   price : {-1, 5}]
    \cup {[nil |-> TRUE, id |-> "p1", category_id |-> "c1", title |-> "", price |-> 0]}

\* The pointer the caller holds.
RequestPtr(req) == IF req.nil THEN NilPtr ELSE PtrTo(StructValue(req))

\* productUsecase.Create(ctx, req, categoryID).  req is the *CreateProductRequest
\* the caller passed; the validator is handed &req, a pointer to that pointer.
CreateProduct(req, id) ==
  LET v == StructCtx(PtrTo(RequestPtr(req)))
      args == <<req.title, req.category_id, req.price>>
  IN
  /\ UNCHANGED <<users, customers, sellers, profile, tokens, nextID, now, inflight, issued>>
  /\ IF req.nil THEN
       /\ last' = CatalogReply("CreateProduct", args, AppError("INVALID_INPUT", "bad request"), << >>, 0)
       /\ UNCHANGED products
     ELSE IF v = "ValidationErrors" THEN
       /\ last' = CatalogReply("CreateProduct", args,
                               AppError("VALIDATE_ERR", "failed validate create request"), << >>, 0)
       /\ UNCHANGED products
     ELSE IF v # "nil" THEN
       /\ last' = CatalogReply("CreateProduct", args,
                               AppError("VALIDATE_ERR", "unexpected validation error"), << >>, 0)
       /\ UNCHANGED products
     ELSE IF GetByTitle(req.title) # {} THEN
       /\ last' = CatalogReply("CreateProduct", args,
                               AppError("BUSINESS_ERR", "product already exists"), << >>, 0)
       /\ UNCHANGED products
     ELSE
       /\ id \notin DOMAIN products
       /\ products' = CreateProductRow(id, ProductRow(req.title, req.category_id, TRUE))
       /\ last' = CatalogReply("CreateProduct", args, OK, << >>, 0)

\* productUsecase.Update(ctx, req, id).  The GetByID probe fails only when
\* the query itself fails (no row is not an error).  The row written is the
\* one named by req.ID; IsActive is not set and goes out as false.
UpdateProduct(req, id) ==
  LET v == StructCtx(PtrTo(RequestPtr(req)))
      args == <<req.title, req.category_id, req.price, req.id, id>>
  IN
  /\ UNCHANGED <<users, customers, sellers, profile, tokens, nextID, now, inflight, issued>>
  /\ IF req.nil THEN
       /\ last' = CatalogReply("UpdateProduct", args, AppError("INVALID_INPUT", "bad request"), << >>, 0)
       /\ UNCHANGED products
     ELSE IF v = "ValidationErrors" THEN
       /\ last' = CatalogReply("UpdateProduct", args,
                               AppError("VALIDATE_ERR", "failed validate update request"), << >>, 0)
       /\ UNCHANGED products
     ELSE IF v # "nil" THEN
       /\ last' = CatalogReply("UpdateProduct", args,
                               AppError("VALIDATE_ERR", "unexpected validation error"), << >>, 0)
       /\ UNCHANGED products
     ELSE
       /\ products' = UpdateProductRow(req.id, ProductRow(req.title, req.category_id, FALSE))
       /\ last' = CatalogReply("UpdateProduct", args, OK, << >>, 0)

\* productUsecase.Delete(ctx, id): deleting no row is only logged.
DeleteProduct(id) ==
  /\ UNCHANGED <<users, customers, sellers, profile, tokens, nextID, now, inflight, issued>>
  /\ IF id = "" THEN
       /\ last' = CatalogReply("DeleteProduct", <<id>>, AppError("INVALID_INPUT", "empty id string"), << >>, 0)
       /\ UNCHANGED products
     ELSE
       /\ products' = DeleteProductRow(id)
       /\ last' = CatalogReply("DeleteProduct", <<id>>, OK, << >>, 0)

\* productUsecase.List(ctx, categoryID, limit, offset), as a reply.
ListProductsReply(op, args, categoryID, limit, offset) ==
  LET l == ClampLimit(limit, ProductListMax, ProductListDefault)
      o == ClampOffset(offset)
  IN
  IF categoryID = "" THEN
    CatalogReply(op, args, AppError("INVALID_INPUT", "category id is empty"), << >>, 0)
  ELSE
    CatalogReply(op, args, OK, <<l, o>>, ListProductRows(categoryID, l, o))

ListProducts(categoryID, limit, offset) ==
  /\ last' = ListProductsReply("ListProducts", <<categoryID, limit, offset>>,
                               categoryID, limit, offset)
  /\ UNCHANGED <<db, nextID, now, inflight, issued, products>>

\* categoryUsecase.List(ctx, limit, offset); the categories table is not modelled.
ListCategories(limit, offset) ==
  LET l == ClampLimit(limit, CategoryListMax, CategoryListDefault)
      o == ClampOffset(offset)
  IN
  /\ last' = CatalogReply("ListCategories", <<limit, offset>>, OK, <<l, o>>,
                          ListCount(Cardinality(CategoryIDs), l, o))
  /\ UNCHANGED <<db, nextID, now, inflight, issued, products>>

\* imageUsecase.ListByProductID(ctx, productID, limit, offset); the images
\* table is not modelled and holds no rows.
ListImages(productID, limit, offset) ==
  LET l == ClampLimit(limit, ImageListMax, ImageListDefault)
      o == ClampOffset(offset)
  IN
  /\ last' = IF productID = "" THEN
               CatalogReply("ListImages", <<productID, limit, offset>>,
                            AppError("INPUT_ERR", "empty id"), << >>, 0)
             ELSE
               CatalogReply("ListImages", <<productID, limit, offset>>, OK, <<l, o>>,
                            ListCount(0, l, o))
  /\ UNCHANGED <<db, nextID, now, inflight, issued, products>>

\* ---- handler/product: GET /categories/:categoryID/products?limit=&offset=
\* A query value is the sequence of its characters.
DigitValue ==
  ("0" :> 0) @@ ("1" :> 1) @@ ("2" :> 2) @@ ("3" :> 3) @@ ("4" :> 4) @@
  ("5" :> 5) @@ ("6" :> 6) @@ ("7" :> 7) @@ ("8" :> 8) @@ ("9" :> 9)

RECURSIVE ParseDigits(_, _)
ParseDigits(s, acc) ==
  IF s = << >> THEN [err |-> FALSE, n |-> acc]
  ELSE IF Head(s) \notin DOMAIN DigitValue THEN [err |-> TRUE, n |-> 0]
  ELSE ParseDigits(Tail(s), acc * 10 + DigitValue[Head(s)])

\* strconv.Atoi on the short strings used here (none reaches the int range).
Atoi(s) ==
  IF s = << >> THEN [err |-> TRUE, n |-> 0]
  ELSE IF Head(s) \in {"+", "-"} THEN
    IF Tail(s) = << >> THEN [err |-> TRUE, n |-> 0]
    ELSE LET r == ParseDigits(Tail(s), 0) IN
         IF r.err THEN r
         ELSE [err |-> FALSE, n |-> IF Head(s) = "-" THEN 0 - r.n ELSE r.n]
  ELSE ParseDigits(s, 0)

HandlerListLimit == 10

QueryValue(str, default) ==
  IF str = << >> THEN default
  ELSE IF Atoi(str).err THEN default ELSE Atoi(str).n

QueryStrings ==
  { << >>, <<"5", "0", "0">>, <<"-", "5">>, <<"1", "0", "1">>, <<"7">>,
    <<"4", "x">>, <<"-">> }

HandleListProducts(categoryID, limitStr, offsetStr) ==
  /\ last' = ListProductsReply("HandleListProducts", <<categoryID, limitStr, offsetStr>>,
                               categoryID, QueryValue(limitStr, HandlerListLimit),
                               QueryValue(offsetStr, 0))
  /\ UNCHANGED <<db, nextID, now, inflight, issued, products>>

\* ---- the catalog under sequential use
Limits == {-1, 0, 7, 20, 21, 100, 101, 500}
Offsets == {-5, 0, 1}

InitCatalog ==
  /\ users = << >>
  /\ customers = {}
  /\ sellers = {}
  /\ profile = << >>
  /\ tokens = {}
  /\ nextID = 0
  /\ now = 0
  /\ issued = {}
  /\ last = CatalogReply("none", << >>, OK, << >>, 0)
  /\ products \in SeededProducts
  /\ inflight = NoCalls

NextCatalog ==
  \/ \E req \in ProductRequests, id \in FreshProductIDs : CreateProduct(req, id)
  \/ \E req \in ProductRequests, id \in ProductIDs : UpdateProduct(req, id)
  \/ \E id \in ProductIDs \cup {""} : DeleteProduct(id)
  \/ \E c \in CategoryIDs \cup {""}, l \in Limits, o \in Offsets : ListProducts(c, l, o)
  \/ \E l \in Limits, o \in Offsets : ListCategories(l, o)
  \/ \E p \in ProductIDs \cup {""}, l \in Limits, o \in Offsets : ListImages(p, l, o)
  \/ \E c \in CategoryIDs, ls \in QueryStrings, os \in QueryStrings :
       HandleListProducts(c, ls, os)

SpecCatalog == InitCatalog /\ [][NextCatalog]_vars

\* ================================================================ claims
RefreshMismatch == AppError("JWT_VALIDATION", "refresh token mismatch")
RefreshExpired == AppError("JWT_VALIDATION", "refresh token expired")
RefreshRevoked == AppError("JWT_VALIDATION", "refresh token revoked")
RefreshParseFailure == AppError("JWT_VALIDATION", "failed to parse refresh token")

ValidRefreshOK(t) == ValidateRefreshToken(t) = OK

IsRefreshString(t) == t.sig = Secret /\ t.exp = t.iat + RefreshTTL
IsAccessString(t) == t.sig = Secret /\ t.exp = t.iat + AccessTTL

\* Every string the server's key can have signed within the bounds, and the forgery.
AllTokenStrings ==
  { SignedString([user_id |-> u, user_type |-> ty, iat |-> i, exp |-> i + ttl], Secret) :
      u \in 1..MaxUsers, ty \in UserTypes, i \in 0..MaxTime, ttl \in {AccessTTL, RefreshTTL} }
  \cup {ForgedToken}

\* C1 (as claimed): when a Login succeeds and issues T2, every refresh token T1
\* issued earlier to the same user fails validation with the mismatch error
\* afterwards, and T2 validates.
C1_SecondLoginInvalidatesFirst ==
  [][\A req \in SessionLoginRequests :
       (Login(req) /\ last'.code = "OK") =>
         /\ \A T1 \in {t \in issued : IsRefreshString(t) /\ t.user_id = last'.refresh.user_id} :
              (ValidateRefreshToken(T1))' = RefreshMismatch
         /\ \A T2 \in {last'.refresh} : (ValidateRefreshToken(T2))' = OK]_vars

\* C2: in every state the tokens table holds at most one row per user id, and
\* at most one token string of any user passes ValidateRefreshToken.
C2_OneLiveRefreshTokenPerUser ==
  \A u \in 1..MaxUsers :
    /\ Cardinality(GetRefreshTokenByUserID(u)) <= 1
    /\ Cardinality({t \in AllTokenStrings :
                      t.user_id = u /\ ValidateRefreshToken(t) = OK}) <= 1

\* C2 witness: a user was handed two different refresh tokens; the newer one
\* validates and the older one, not yet expired, does not.
C2_Witness ==
  \E t1 \in issued, t2 \in issued :
    /\ IsRefreshString(t1) /\ IsRefreshString(t2)
    /\ t1.user_id = t2.user_id /\ t1 # t2
    /\ ParseOK(t1)
    /\ ValidateRefreshToken(t1) # OK
    /\ ValidateRefreshToken(t2) = OK

\* C3 (as claimed): a Login that follows a successful Register with the same
\* role and password and the registered username (or email) succeeds and
\* returns a token pair different from the pair Register returned.
C3_LoginAfterRegisterDistinctPair ==
  [][\A req \in SessionLoginRequests :
       LET id == last.refresh.user_id IN
       ( /\ last.op = "Register" /\ last.code = "OK"
         /\ id \in DOMAIN users
         /\ req.user_type = users[id].user_type
         /\ CompareHashPassword(users[id].password_hash, req.password)
         /\ \/ req.username = users[id].username /\ req.email = ""
            \/ req.email = users[id].email /\ req.username = ""
         /\ Login(req) )
       => /\ last'.code = "OK"
          /\ <<last'.access, last'.refresh>> # <<last.access, last.refresh>>]_vars

\* C9 (as claimed): a correctly signed refresh token equal to the stored
\* string, presented after the stored expiry time, fails with "refresh token
\* expired".
C9_ExpiredOutcome ==
  \A r \in tokens :
    (r.token.sig = Secret /\ now > r.expires_at)
      => ValidateRefreshToken(r.token) = RefreshExpired

\* C10: the outcome of ValidateAccessToken is decided by the signature and
\* the clock alone: every correctly signed, unexpired token is accepted in
\* every state, whatever the users and tokens tables hold.
C10_AccessTokenStoreIndependent ==
  \A a \in AllTokenStrings :
    (a.sig = Secret /\ now < a.exp) => ValidateAccessToken(a) = OK

\* C10 witness: an unexpired access token is accepted although its user has
\* been deleted, and another although its user's refresh token is revoked.
C10_Witness ==
  /\ \E a \in issued :
       /\ IsAccessString(a) /\ ValidateAccessToken(a) = OK
       /\ a.user_id \notin DOMAIN users
  /\ \E a \in issued :
       /\ IsAccessString(a) /\ ValidateAccessToken(a) = OK
       /\ \E t \in tokens : t.user_id = a.user_id /\ t.is_revoked

\* C4 (as claimed): no two existing identities of the same role share a
\* username, and no two share an email.
C4_IdentityUniquePerRole ==
  \A i \in DOMAIN users, j \in DOMAIN users :
    (i # j /\ users[i].user_type = users[j].user_type)
      => /\ users[i].username # users[j].username
         /\ users[i].email # users[j].email

\* C5: a well-formed Register whose email or username is already held by an
\* identity of the same role is answered DUPLICATE, whatever the other
\* identifier is, and creates no identity, no profile and no token record.
SameRoleHolder(req) ==
  \E id \in DOMAIN users :
    /\ users[id].user_type = req.user_type
    /\ users[id].email = req.email \/ users[id].username = req.username

C5_DuplicateRegisterRejected ==
  \A req \in RegisterRequests :
    (ValidRegisterRequest(req) /\ SameRoleHolder(req)) =>
      ~ENABLED ( /\ Register(req)
                 /\ ~( /\ last'.code = "DUPLICATE"
                       /\ last'.access = NoToken /\ last'.refresh = NoToken
                       /\ UNCHANGED <<users, customers, sellers, profile, tokens, nextID, issued>> ) )

\* C5 witness: a Register was rejected for its username although its email
\* was new (the email probe found nothing).
C5_Witness ==
  /\ last.op = "Register"
  /\ last.code = "DUPLICATE"
  /\ last.msg = "username already exists"
  /\ users # << >>

\* C6 (as claimed): after UpdateAuth has returned success for user u, u's
\* stored refresh-token row is revoked and the token used for the update
\* fails validation with "refresh token revoked".
C6_UpdateAuthRevokesUsedToken ==
  (last.op = "UpdateAuth" /\ last.code = "OK")
    => /\ \A r \in GetRefreshTokenByUserID(last.user) : r.is_revoked
       /\ ValidateRefreshToken(last.tok) = RefreshRevoked

\* C7: an UpdateAuth that asks for a new password without the old one is
\* answered VALIDATION; with a valid refresh token and an old password that
\* does not match the stored hash it is answered INVALID_CREDENTIALS; either
\* way the users row is as before and no token row is touched.
C7_PasswordChangeNeedsOldPassword ==
  \A ctx \in Contexts, t \in RefreshPresentable, req \in UpdateAuthRequests :
    /\ (req.new_password # "" /\ req.old_password = "") =>
         ~ENABLED ( /\ UpdateAuth(ctx, t, req)
                    /\ ~(last'.code = "VALIDATION" /\ UNCHANGED <<db, issued>>) )
    /\ ( /\ req.new_password # "" /\ req.old_password # ""
         /\ ctx.userID \in DOMAIN users
         /\ ~CompareHashPassword(users[ctx.userID].password_hash, req.old_password) ) =>
         ~ENABLED ( /\ UpdateAuth(ctx, t, req)
                    /\ ~( /\ UNCHANGED <<db, issued>>
                          /\ (ValidRefreshOK(t) /\ ValidUpdateAuthRequest(req))
                               => last'.code = "INVALID_CREDENTIALS" ) )

\* C7 witness: an update was refused for a wrong old password.
C7_Witness ==
  /\ last.op = "UpdateAuth"
  /\ last.code = "INVALID_CREDENTIALS"
  /\ last.msg = "old password incorrect"

\* C8 (as claimed): a Login with both username and email non-empty is
\* answered "provide either username or email, not both", before any lookup.
Ambiguous == AppError("VALIDATION", "provide either username or email, not both")
Missing == AppError("VALIDATION", "email or username is required")

C8_BothNonEmptyRejected ==
  \A req \in LoginRequests :
    (req.username # "" /\ req.email # "") =>
      ~ENABLED ( /\ Login(req)
                 /\ ~( /\ last'.code = Ambiguous.code /\ last'.msg = Ambiguous.msg
                       /\ last'.calls = {}
                       /\ UNCHANGED <<db, nextID, issued>> ) )

\* C8 (amended): a Login that passes field validation and whose username and
\* email are both non-empty after trimming white space is answered
\* "provide either username or email, not both"; with both empty after
\* trimming it is answered "email or username is required"; in both cases no
\* repository, hasher or token-store call is made and no state changes.
C8_IdentifierRulesBeforeLookup ==
  \A req \in LoginRequests :
    /\ (ValidLoginRequest(req) /\ TrimSpace(req.username) # "" /\ TrimSpace(req.email) # "") =>
         ~ENABLED ( /\ Login(req)
                    /\ ~( /\ last'.code = Ambiguous.code /\ last'.msg = Ambiguous.msg
                          /\ last'.calls = {}
                          /\ UNCHANGED <<db, nextID, issued>> ) )
    /\ (ValidLoginRequest(req) /\ TrimSpace(req.username) = "" /\ TrimSpace(req.email) = "") =>
         ~ENABLED ( /\ Login(req)
                    /\ ~( /\ last'.code = Missing.code /\ last'.msg = Missing.msg
                          /\ last'.calls = {}
                          /\ UNCHANGED <<db, nextID, issued>> ) )

\* C8 witness: with identities registered, a Login was turned away as ambiguous.
C8_Witness ==
  /\ last.op = "Login"
  /\ last.msg = Ambiguous.msg
  /\ last.calls = {}
  /\ users # << >>

\* C11 (as claimed): once DeleteUser(u) has succeeded (u was given out and
\* has no identity row any more), no Login returns tokens for u, no refresh
\* token issued for u validates, and no UpdateAuth, UpdateProfile or
\* DeleteUser called for user id u returns success.
Deleted(u) == u \in 1..nextID /\ u \notin DOMAIN users

C11_LoginClosed(u) ==
  \A req \in LoginRequests :
    ~ENABLED (Login(req) /\ last'.code = "OK" /\ last'.refresh.user_id = u)

C11_TokensDead(u) ==
  \A t \in AllTokenStrings : t.user_id = u => ValidateRefreshToken(t) # OK

C11_UpdateAuthClosed(u) ==
  \A ctx \in Contexts, t \in RefreshPresentable, req \in UpdateAuthRequests :
    ctx.userID = u => ~ENABLED (UpdateAuth(ctx, t, req) /\ last'.code = "OK")

C11_UpdateProfileClosed(u) ==
  \A ctx \in Contexts, body \in ProfileBodies :
    ctx.userID = u => ~ENABLED (HandleUpdateProfile(ctx, body) /\ last'.code = "OK")

C11_DeleteClosed(u) ==
  \A ctx \in Contexts :
    ctx.userID = u => ~ENABLED (DeleteUser(ctx) /\ last'.code = "OK")

C11_DeletedIsTerminal ==
  \A u \in 1..MaxUsers :
    Deleted(u) =>
      /\ C11_LoginClosed(u)
      /\ C11_TokensDead(u)
      /\ C11_UpdateAuthClosed(u)
      /\ C11_UpdateProfileClosed(u)
      /\ C11_DeleteClosed(u)

\* C12: DeleteUser for an existing identity that has no refresh-token record
\* returns success and removes the identity with its profile row.
C12_DeleteWithoutTokenRecord ==
  \A u \in DOMAIN users :
    GetRefreshTokenByUserID(u) = {} =>
      ~ENABLED ( /\ DeleteUser(CallerContext(u))
                 /\ ~( /\ last'.code = "OK"
                       /\ u \notin DOMAIN users'
                       /\ u \notin customers' \cup sellers' ) )

\* C12 witness: a deletion succeeded without a token row to revoke.
C12_Witness ==
  /\ last.op = "DeleteUser"
  /\ last.code = "OK"
  /\ "UpsertRefreshToken" \notin last.calls
  /\ last.user \notin DOMAIN users

\* C13: DeleteUser for a user id without an identity row (never registered,
\* or deleted before) fails with NOT_FOUND and changes no state.
C13_DeleteMissingIdentity ==
  \A u \in 1..MaxUsers :
    u \notin DOMAIN users =>
      ~ENABLED ( /\ DeleteUser(CallerContext(u))
                 /\ ~( /\ last'.code = "NOT_FOUND"
                       /\ UNCHANGED <<db, nextID, issued>> ) )

\* C13 witness: a deletion was refused for an id that had been deleted
\* before, while another identity exists.
C13_Witness ==
  /\ last.op = "DeleteUser"
  /\ last.code = "NOT_FOUND"
  /\ \E u \in 1..MaxUsers : Deleted(u)
  /\ users # << >>

\* C14: every identity row has its profile row in the table of its role and
\* in no other, every profile row belongs to an identity row, and a Register
\* whose userRepo.Create fails at any step leaves the users, customers and
\* sellers tables as they were.
C14_IdentityProfileAtomic ==
  /\ \A id \in DOMAIN users :
       /\ users[id].user_type = "customer" => (id \in customers /\ id \notin sellers)
       /\ users[id].user_type = "seller" => (id \in sellers /\ id \notin customers)
       /\ users[id].user_type \in UserTypes
  /\ customers \cup sellers = DOMAIN users
  /\ DOMAIN profile = DOMAIN users
  /\ \A req \in RegisterRequests, step \in CreateSteps :
       ~ENABLED ( /\ RegisterFault(req, step)
                  /\ ~(UNCHANGED <<users, customers, sellers, profile>>) )

\* C14 witness: with an identity of one role stored, a registration failed
\* inside userRepo.Create.
C14_Witness ==
  /\ last.op = "Register"
  /\ last.code = "USER_CREATE_FAIL"
  /\ users # << >>
  /\ customers \cup sellers = DOMAIN users

\* C15: a successful UpdateAuth for user u leaves every other identity row
\* alone and changes of u's row only the fields supplied non-empty: an
\* omitted email, username or new_password leaves the stored email, username
\* or password hash as it was.  No operation changes the role of an identity.
C15_Frame(u, req) ==
  /\ DOMAIN users' = DOMAIN users
  /\ \A v \in DOMAIN users \ {u} : users'[v] = users[v]
  /\ u \in DOMAIN users
  /\ req.email = "" => users'[u].email = users[u].email
  /\ req.username = "" => users'[u].username = users[u].username
  /\ req.new_password = "" => users'[u].password_hash = users[u].password_hash
  /\ users'[u].user_type = users[u].user_type
  /\ UNCHANGED <<customers, sellers, profile>>

C15_RoleFixed ==
  \A id \in DOMAIN users \cap DOMAIN users' : users'[id].user_type = users[id].user_type

C15_PartialUpdate ==
  /\ [](\A ctx \in Contexts, t \in RefreshPresentable, req \in UpdateAuthRequests :
          ~ENABLED ( /\ UpdateAuth(ctx, t, req)
                     /\ last'.code = "OK"
                     /\ ~C15_Frame(ctx.userID, req) ))
  /\ [][C15_RoleFixed]_vars

\* C15 witness: a successful update has stored a new password hash for an
\* identity while another identity exists.
C15_Witness ==
  /\ last.op = "UpdateAuth"
  /\ last.code = "OK"
  /\ last.user \in DOMAIN users
  /\ users[last.user].password_hash = GenerateHashPassword("otherlong1")
  /\ \E v \in DOMAIN users : v # last.user

\* C16: when the token-store upsert fails inside GenerateRefreshToken,
\* Register and Login return an error and no token (neither the access nor
\* the refresh token reaches the caller), and the token table, so the
\* user's previously stored record, is unchanged.
C16_NothingReturned ==
  /\ last'.code # "OK"
  /\ last'.access = NoToken
  /\ last'.refresh = NoToken
  /\ UNCHANGED <<tokens, issued>>

C16_UpsertFailureReturnsNoToken ==
  /\ \A req \in LoginRequests :
       ~ENABLED (LoginFault(req) /\ ~C16_NothingReturned)
  /\ \A req \in RegisterRequests :
       ~ENABLED (RegisterFault(req, "upsert") /\ ~C16_NothingReturned)

\* C16 witness: a Login failed at the upsert while the user's earlier,
\* still valid record is stored.
C16_Witness ==
  /\ last.op = "Login"
  /\ last.code = "JWT_GENERATION"
  /\ \E r \in tokens : ~r.is_revoked /\ ValidateRefreshToken(r.token) = OK

\* C17: authUsecase.UpdateProfile with role customer and a payload that is
\* not a CustomerProfileRequest, or role seller and a payload that is not a
\* SellerProfileRequest, fails with INVALID_PAYLOAD; with a role that is
\* neither (roles are compared trimmed and lower-cased) it fails with
\* INVALID_TYPE; in these cases no table is written.
C17_Refused(userID, userType, payload, code) ==
  ~ENABLED ( /\ UpdateProfile(userID, userType, payload)
             /\ ~( /\ last'.code = code
                   /\ last'.calls = {}
                   /\ UNCHANGED <<db, nextID, issued>> ) )

C17_PayloadMustMatchRole ==
  \A userID \in 1..MaxUsers, userType \in UserTypeStrings, payload \in ProfilePayloads :
    LET t == NormalizeUserType(userType) IN
    /\ (t = "customer" /\ payload.kind # "CustomerProfileRequest")
         => C17_Refused(userID, userType, payload, "INVALID_PAYLOAD")
    /\ (t = "seller" /\ payload.kind # "SellerProfileRequest")
         => C17_Refused(userID, userType, payload, "INVALID_PAYLOAD")
    /\ t \notin {"customer", "seller"}
         => C17_Refused(userID, userType, payload, "INVALID_TYPE")

\* C17 witness: a mismatched payload was refused while a profile row with
\* content is stored.
C17_Witness ==
  /\ last.op = "UpdateProfile"
  /\ last.code = "INVALID_PAYLOAD"
  /\ \E id \in DOMAIN profile : profile[id] # NullProfile

\* C20 (as claimed): whenever the presented refresh token is invalid (bad
\* signature, expired, no stored record, mismatch with the stored string, or
\* revoked), UpdateAuth fails with INVALID_TOKEN whatever the other request
\* fields contain, and the identity is neither read nor written.
InvalidRefreshToken(t) ==
  \/ t.sig # Secret
  \/ now >= t.exp
  \/ \A r \in tokens : r.user_id # t.user_id
  \/ \E r \in tokens :
       r.user_id = t.user_id /\ (r.token # t \/ now > r.expires_at \/ r.is_revoked)

C20_IdentityUntouched ==
  /\ "userRepo.GetByID" \notin last'.calls
  /\ "userRepo.UpdateAuth" \notin last'.calls
  /\ UNCHANGED <<db, nextID, issued>>

C20_TokenCheckedFirst ==
  \A ctx \in Contexts, t \in RefreshPresentable, req \in UpdateAuthRequests :
    InvalidRefreshToken(t) =>
      ~ENABLED ( /\ UpdateAuth(ctx, t, req)
                 /\ ~(last'.code = "INVALID_TOKEN" /\ C20_IdentityUntouched) )

\* C20 (amended): the request fields are validated first; for a request that
\* passes field validation, an invalid refresh token makes UpdateAuth fail
\* with INVALID_TOKEN whatever the fields contain; a request that fails
\* field validation is answered VALIDATION; in both cases the identity is
\* neither read nor written.
C20_TokenCheckedAfterFields ==
  \A ctx \in Contexts, t \in RefreshPresentable, req \in UpdateAuthRequests :
    InvalidRefreshToken(t) =>
      ~ENABLED ( /\ UpdateAuth(ctx, t, req)
                 /\ ~( /\ last'.code = IF ValidUpdateAuthRequest(req)
                                         THEN "INVALID_TOKEN" ELSE "VALIDATION"
                       /\ C20_IdentityUntouched ) )

\* C20 witness: an update was refused for its token although that token is
\* correctly signed and unexpired (its stored row is revoked or replaced).
C20_Witness ==
  /\ last.op = "UpdateAuth"
  /\ last.code = "INVALID_TOKEN"
  /\ \E t \in RefreshPresentable :
       /\ ParseOK(t)
       /\ \E r \in tokens : r.user_id = t.user_id /\ r.is_revoked

C19_Expected(limit, offset, max, default) ==
  <<IF limit >= 0 /\ limit <= max THEN limit ELSE default,
    IF offset < 0 THEN 0 ELSE offset>>

\* C19: a list operation never fails because of limit or offset: a limit
\* outside [0,100] (products, categories) or [0,20] (images) is replaced by
\* 40 / 20, a negative offset by 0, and the repository is called with a
\* limit inside the range and an offset >= 0, also when the values come
\* from the query string of the product list route.
C19_ListArgsClamped ==
  /\ \A c \in CategoryIDs, l \in Limits, o \in Offsets :
       ~ENABLED ( /\ ListProducts(c, l, o)
                  /\ ~(last'.code = "OK" /\ last'.listed = C19_Expected(l, o, 100, 40)) )
  /\ \A l \in Limits, o \in Offsets :
       ~ENABLED ( /\ ListCategories(l, o)
                  /\ ~(last'.code = "OK" /\ last'.listed = C19_Expected(l, o, 100, 40)) )
  /\ \A p \in ProductIDs, l \in Limits, o \in Offsets :
       ~ENABLED ( /\ ListImages(p, l, o)
                  /\ ~(last'.code = "OK" /\ last'.listed = C19_Expected(l, o, 20, 20)) )
  /\ \A c \in CategoryIDs, ls \in QueryStrings, os \in QueryStrings :
       ~ENABLED ( /\ HandleListProducts(c, ls, os)
                  /\ ~( /\ last'.code = "OK"
                        /\ last'.listed[1] \in 0..100
                        /\ last'.listed[2] >= 0 ) )
  /\ last.listed # << >> =>
       /\ last.listed[1] \in 0..(IF last.op = "ListImages" THEN 20 ELSE 100)
       /\ last.listed[2] >= 0

\* A product list asked for with limit 500 and offset -5 was answered from
\* a repository call with limit 40 and offset 0.
C19_Witness ==
  /\ last.op = "ListProducts"
  /\ last.args = <<"c1", 500, -5>>
  /\ last.code = "OK"
  /\ last.listed = <<40, 0>>

\* ------------------------------------------------------------------ C21
\* Request c has returned success from operation op.
Succeeded(c, op) ==
  inflight[c].pc = "done" /\ inflight[c].op = op /\ inflight[c].code = "OK"

\* C21: when two overlapping Logins of one user have both returned success,
\* the token store holds, not revoked, the refresh token of one of them (the
\* one whose upsert came last); while both are unexpired that token validates
\* and the refresh token the other Login returned fails with the mismatch error.
C21_LastLoginWins ==
  (Succeeded(1, "Login") /\ Succeeded(2, "Login") /\ inflight[1].user = inflight[2].user) =>
    \E c, d \in 1..MaxCalls :
      /\ c # d
      /\ GetRefreshTokenByUserID(inflight[c].user) =
           {[RefreshTokenRow(inflight[c].user, inflight[c].refresh)
               EXCEPT !.expires_at = inflight[c].refresh.exp]}
      /\ (now < inflight[c].refresh.exp /\ now < inflight[d].refresh.exp) =>
           /\ ValidateRefreshToken(inflight[c].refresh) = OK
           /\ ValidateRefreshToken(inflight[d].refresh) = RefreshMismatch

\* ------------------------------------------------------------------ C22
\* C22: in Register, when the query of either uniqueness probe fails for a
\* reason other than not-found, Register fails with REPO "uniqueness check
\* failed" and creates no identity.
C22_ProbeFailureRejected ==
  \A req \in WellFormedRegister, failed \in {"email", "username"} :
    ~ENABLED ( /\ RegisterProbeFault(req, failed)
               /\ ~( /\ last'.code = "REPO"
                     /\ last'.msg = "uniqueness check failed"
                     /\ UNCHANGED <<db, nextID, issued>> ) )

\* ------------------------------------------------------------------ C23
\* C23: when the identity update of UpdateAuth has committed and revoking
\* the refresh token then fails (on the read or on the write of the token
\* row), UpdateAuth still returns success, the new credentials are stored,
\* the token row is as it was and no error reaches the caller.
C23_RevokeFailureNotFatal ==
  \A ctx \in Contexts, t \in RefreshPresentable, req \in SessionUpdateRequests,
     step \in {"read", "write"} :
    ~ENABLED ( /\ UpdateAuthRevokeFault(ctx, t, req, step)
               /\ ~( /\ last'.code = "OK"
                     /\ last'.msg = ""
                     /\ users'[ctx.userID].password_hash =
                          (IF req.new_password # "" THEN GenerateHashPassword(req.new_password)
                           ELSE users[ctx.userID].password_hash)
                     /\ UNCHANGED tokens ) )

\* A password change went through although the revoke failed: the caller
\* got success, the new hash is stored and the token row is still live.
C23_Witness ==
  /\ last.op = "UpdateAuth"
  /\ last.code = "OK"
  /\ "revokeRefreshToken" \in last.calls
  /\ last.user \in DOMAIN users
  /\ users[last.user].password_hash = GenerateHashPassword("otherlong1")
  /\ \E r \in tokens : r.user_id = last.user /\ ~r.is_revoked /\ r.token = last.tok

\* ------------------------------------------------------------------ C24
\* A product Delete whose id matches no stored product returns success and
\* leaves the stored products as they are.
C24_DeleteMissing ==
  \A id \in ProductIDs :
    id \notin DOMAIN products =>
      ~ENABLED ( /\ DeleteProduct(id)
                 /\ ~(last'.code = "OK" /\ UNCHANGED products) )

C25_RefreshTokenBoundToCaller ==
  \A ctx \in Contexts, t \in RefreshPresentable, req \in SessionUpdateRequests :
    t.user_id # ctx.userID =>
      ~ENABLED ( /\ UpdateAuth(ctx, t, req)
                 /\ ~UNCHANGED <<users, tokens>> )

\* ------------------------------------------------------------------ C26
\* C26: once a refresh-token string is revoked (ValidateRefreshToken answers
\* "refresh token revoked" for it), no step of the service, a further Login
\* of the same user included, makes ValidateRefreshToken succeed on it.
C26_RevokedNeverValidAgain ==
  [][ \A t \in RefreshPresentable :
        (ValidateRefreshToken(t) = RefreshRevoked) => (ValidateRefreshToken(t) # OK)' ]_vars

\* ------------------------------------------------------------------ C27
\* C27: for every interleaving of overlapping requests a refresh token
\* authorizes at most one successful UpdateAuth: no two calls that presented
\* the same refresh-token string have both returned success.
C27_RefreshTokenSingleUse ==
  \A c, d \in 1..MaxCalls :
    (c # d /\ Succeeded(c, "UpdateAuth") /\ Succeeded(d, "UpdateAuth")) =>
      inflight[c].tok # inflight[d].tok

\* ------------------------------------------------------------------ C28
\* C28: revocation never writes back an older token.  When a revocation
\* (revokeRefreshToken called from UpdateAuth or DeleteUser) and a Login of
\* the same user have overlapped and both have finished, with the account
\* still there, the stored token string is the one that Login issued.
C28_RevokeKeepsLoginToken ==
  \A c, d \in 1..MaxCalls :
    ( /\ c # d
      /\ Succeeded(c, "Login")
      /\ inflight[d].pc = "done" /\ inflight[d].op \in {"UpdateAuth", "DeleteUser"}
      /\ inflight[d].user = inflight[c].user
      /\ inflight[c].user \in DOMAIN users ) =>
        \A r \in GetRefreshTokenByUserID(inflight[c].user) : r.token = inflight[c].refresh

\* ------------------------------------------------------------------ C29
\* C29: Register is all-or-nothing.  Whenever Register returns an error, a
\* failure to generate or persist the tokens included, the datastore is as
\* it was before the call: no identity, profile or token row of that call
\* exists (so the same request, repeated, is not a duplicate).
C29_RegisterAllOrNothing ==
  \A req \in SessionRegisterRequests :
    /\ ~ENABLED (Register(req) /\ last'.code # "OK" /\ ~UNCHANGED db)
    /\ \A step \in RegisterFaultSteps :
         ~ENABLED (RegisterFault(req, step) /\ ~UNCHANGED db)

\* ------------------------------------------------------------------ C30
\* The stored products after Update(req, id) as claimed: the product with
\* the path id carries the request's title and category, the rest of that
\* row (the active flag among it) and every other product are as before.
C30_Expected(req, id) ==
  [i \in DOMAIN products |->
     IF i = id THEN [products[i] EXCEPT !.title = req.title, !.category_id = req.category_id]
     ELSE products[i]]

====
